---- MODULE Spec2Model ----
(***************************************************************************)
(* A model of src/dijkstra.py: the airport registry, the flight graph      *)
(* (Graph.connect / neighbors / load), the memoised price function         *)
(* (Graph.get_price under functools.lru_cache), the Heap of Route tuples   *)
(* and the search Graph.dijkstra, one action per loop iteration.           *)
(*                                                                         *)
(* Airports are identified by their code (AIRPORTS is keyed by code, so a  *)
(* code names one Airport tuple); codes are the integers 1..NumAirports in *)
(* the order Python compares the code strings.  Code 0 is a code that      *)
(* flights.dat or the prompt may name and airports.dat does not hold.      *)
(* Prices are exact integers in tenths of a cent (the source uses floats). *)
(***************************************************************************)
EXTENDS Integers, Sequences, FiniteSets, TLC

\* ---------------------------------------------------------------- bounds
NumAirports == 3
MaxRows == 3
MaxPriceCalls == 3
\* The sweep over all pairs (below): its airports, and how often haversine may
\* run for one pair before the sweep stops.
SweepAirports == 12
MaxSweepCalls == 2

\* ------------------------------------------------------------- constants
\* functools.lru_cache() with no argument keeps 128 entries.
lru_maxsize == 128
\* cents_per_km=0.1, in tenths of a cent per kilometre.
cents_per_km == 1
\* One degree of a great circle, in kilometres (the haversine package).
KmPerDegree == 111

Codes == 0..NumAirports
KnownCodes == 1..NumAirports
\* The spacings, in degrees of longitude along the equator, airports.dat may
\* give consecutive codes: 180 puts airports 1 and 3 at the same place.
Spacings == {45, 90, 135, 180}
Pairs == {{a, b} : a \in KnownCodes, b \in KnownCodes}

VARIABLES
    AIRPORTS,     \* code -> [latitude, longitude], of the codes airports.dat holds
    phase,        \* "load": Graph.load is reading flights; "ready": it returned
    rows,         \* the flights Graph.load has read so far (kept while loading)
    _neighbors,   \* Graph._neighbors: a defaultdict(set), node -> set of nodes
    cache,        \* lru_cache of get_price: entries, least recently used first
    calls,        \* how often haversine ran for each unordered pair of airports
    pc,           \* "idle", "loop" (inside while routes), "done", "crashed"
    origin, destination,
    routes,       \* Heap._values, the Routes held, in the order they were pushed
    visited,
    price, path,  \* the Route popped last (line 97)
    result        \* what dijkstra returned, or the exception that ended the run

vars == <<AIRPORTS, phase, rows, _neighbors, cache, calls, pc, origin,
          destination, routes, visited, price, path, result>>

\* ----------------------------------------------------------- Route, Heap
Route(p, q) == [price |-> p, path |-> q]

Min2(a, b) == IF a < b THEN a ELSE b

\* Python's list comparison of two paths: Airport tuples compare by code first,
\* and codes are unique; a proper prefix is the smaller list.
PathLess(p, q) ==
    \E k \in 1..(Min2(Len(p), Len(q)) + 1) :
        /\ \A j \in 1..(k - 1) : p[j] = q[j]
        /\ \/ k > Len(p) /\ k <= Len(q)
           \/ k <= Len(p) /\ k <= Len(q) /\ p[k] < q[k]

\* Route is a namedtuple: heapq compares (price, path) as tuples.
RouteLess(r1, r2) ==
    \/ r1.price < r2.price
    \/ r1.price = r2.price /\ PathLess(r1.path, r2.path)

push(values, value) == Append(values, value)

\* A heap whose comparison is turned round: it hands out a greatest element.
PopIndexMax(values) ==
    CHOOSE i \in 1..Len(values) :
        \A j \in 1..Len(values) : ~RouteLess(values[i], values[j])

\* A heap of Routes that compare by price alone: of the cheapest Routes it
\* hands out the one pushed last.
PopIndexLastCheapest(values) ==
    CHOOSE i \in 1..Len(values) :
        /\ \A j \in 1..Len(values) : values[i].price <= values[j].price
        /\ \A j \in (i + 1)..Len(values) : values[i].price < values[j].price

\* heapq.heappop hands out a least element under RouteLess.
PopIndex(values) ==
    CHOOSE i \in 1..Len(values) :
        \A j \in 1..Len(values) : ~RouteLess(values[j], values[i])

pop(values) == values[PopIndex(values)]

Remove(s, i) == [j \in 1..(Len(s) - 1) |-> IF j < i THEN s[j] ELSE s[j + 1]]

\* A pop that leaves the popped Route in the heap.
pop_rest_keep(values) == values

pop_rest(values) == Remove(values, PopIndex(values))

\* ------------------------------------------------------------- get_price
Abs(x) == IF x < 0 THEN -x ELSE x

\* haversine.haversine for two points of the equator: the shorter arc.
haversine(point1, point2) ==
    LET d == Abs(point1[2] - point2[2]) % 360
        arc == IF d > 180 THEN 360 - d ELSE d
    IN  arc * KmPerDegree

\* The body of get_price, lines 81-84.
get_price_body(o, d) ==
    LET point1 == <<AIRPORTS[o].latitude, AIRPORTS[o].longitude>>
        point2 == <<AIRPORTS[d].latitude, AIRPORTS[d].longitude>>
        distance == haversine(point1, point2)
    IN  distance * cents_per_km

\* The key lru_cache makes of the call get_price(origin, destination).
make_key(o, d) == <<o, d>>

KeyIndex(entries, key) ==
    IF \E i \in 1..Len(entries) : entries[i].key = key
    THEN CHOOSE i \in 1..Len(entries) : entries[i].key = key
    ELSE 0

\* get_price under lru_cache, on memo = [cache, calls]: a hit returns the stored
\* result and makes the entry the most recently used; a miss runs the body,
\* stores the result and, at lru_maxsize entries, drops the least recently used.
get_price(memo, o, d) ==
    LET key == make_key(o, d)
        i == KeyIndex(memo.cache, key)
    IN  IF i > 0
        THEN [memo |-> [cache |-> Append(Remove(memo.cache, i), memo.cache[i]),
                        calls |-> memo.calls],
              value |-> memo.cache[i].result]
        ELSE LET v == get_price_body(o, d)
                 kept == IF Len(memo.cache) >= lru_maxsize
                         THEN Tail(memo.cache) ELSE memo.cache
             IN  [memo |-> [cache |-> Append(kept, [key |-> key, result |-> v]),
                            calls |-> [memo.calls EXCEPT ![{o, d}] = @ + 1]],
                  value |-> v]

\* ----------------------------------------------------------------- Graph
\* defaultdict(set).__getitem__: a missing key is inserted with an empty set.
getitem(g, node) ==
    IF node \in DOMAIN g THEN g
    ELSE [n \in DOMAIN g \cup {node} |-> IF n = node THEN {} ELSE g[n]]

add(g, node1, node2) ==
    LET h == getitem(g, node1)
    IN  [h EXCEPT ![node1] = @ \cup {node2}]

\* A connect that records the edge at node1 only.
connect_oneway(g, node1, node2) == add(g, node1, node2)

connect(g, node1, node2) == add(add(g, node1, node2), node2, node1)

\* A neighbors that iterates the mapping itself: it yields every key.
neighbors_keys(g, node) == DOMAIN getitem(g, node)

\* What neighbors(node) yields, once g holds the key (line 62).
neighbors(g, node) == getitem(g, node)[node]

\* A load that looks only the origin up before it connects.
load_flight_origin_only(g, o, d) ==
    IF o \in DOMAIN AIRPORTS THEN connect(g, o, d) ELSE g

\* Graph.load's loop body for one Flight: a KeyError from either lookup skips it.
load_flight(g, o, d) ==
    IF o \in DOMAIN AIRPORTS /\ d \in DOMAIN AIRPORTS
    THEN connect(g, o, d)
    ELSE g

\* The orders in which iterating a set may yield its members.
Orders(S) ==
    {f \in [1..Cardinality(S) -> S] : \A i, j \in 1..Cardinality(S) : f[i] = f[j] => i = j}

\* The undirected edges a mapping holds, each as the set of its end points.
EdgeSet(g) == UNION {{{a, b} : b \in g[a]} : a \in DOMAIN g}

\* ------------------------------------------------------------------ Init
\* The module has run: AIRPORTS is built, Graph.load has made an empty Graph
\* (line 66) and get_price's cache is empty.
Init ==
    /\ \E s \in Spacings :
           AIRPORTS = [c \in KnownCodes |->
                          [latitude |-> 0, longitude |-> ((c - 1) * s) % 360]]
    /\ phase = "load"
    /\ rows = {}
    /\ _neighbors = <<>>
    /\ cache = <<>>
    /\ calls = [p \in Pairs |-> 0]
    /\ pc = "idle"
    /\ origin = 0
    /\ destination = 0
    /\ routes = <<>>
    /\ visited = {}
    /\ price = 0
    /\ path = <<>>
    /\ result = [type |-> "none"]

search == <<pc, origin, destination, routes, visited, price, path, result>>

\* ------------------------------------------------------------ Graph.load
\* One turn of the loop of Graph.load (lines 67-73) on the Flight (o, d).
LoadFlight(o, d) ==
    /\ phase = "load"
    /\ Cardinality(rows \cup {<<o, d>>}) <= MaxRows
    /\ rows' = rows \cup {<<o, d>>}
    /\ _neighbors' = load_flight(_neighbors, o, d)
    /\ UNCHANGED <<AIRPORTS, phase, cache, calls, search>>

\* get_flights is exhausted: load returns the world (line 74).
LoadReturn ==
    /\ phase = "load"
    /\ phase' = "ready"
    /\ rows' = {}
    /\ UNCHANGED <<AIRPORTS, _neighbors, cache, calls, search>>

\* A caller's own world.connect(node1, node2), before the search.
Connect(node1, node2) ==
    /\ phase = "ready"
    /\ pc = "idle"
    /\ Cardinality(EdgeSet(connect(_neighbors, node1, node2))) <= MaxRows
    /\ _neighbors' = connect(_neighbors, node1, node2)
    /\ UNCHANGED <<AIRPORTS, phase, rows, cache, calls, search>>

\* A caller iterating world.neighbors(node), before the search.
Neighbors(node) ==
    /\ phase = "ready"
    /\ pc = "idle"
    /\ _neighbors' = getitem(_neighbors, node)
    /\ UNCHANGED <<AIRPORTS, phase, rows, cache, calls, search>>

\* ---------------------------------------------------------------- __main__
\* Line 122 with a prefix AIRPORTS does not hold: the lookup raises KeyError,
\* nothing catches it and the process ends.
MainKeyError(source_location, destination_location) ==
    /\ phase = "ready"
    /\ pc = "idle"
    /\ source_location \notin DOMAIN AIRPORTS \/ destination_location \notin DOMAIN AIRPORTS
    /\ pc' = "crashed"
    /\ result' = [type |-> "KeyError"]
    /\ UNCHANGED <<AIRPORTS, phase, rows, _neighbors, cache, calls, origin,
                   destination, routes, visited, price, path>>

\* -------------------------------------------------------------- dijkstra
\* A push that prices the Route by its last flight alone.
PushRouteLastFlight(st, airport, base, seen, neighbor) ==
    IF neighbor \in seen THEN st
    ELSE LET g == get_price(st.memo, airport, neighbor)
         IN  [routes |-> push(st.routes, Route(g.value, Append(base.path, neighbor))),
              memo |-> g.memo]

\* One turn of the for loops of lines 89-91 and 106-110 on the heap and the
\* cache in st: the neighbor, unless it is in seen, is priced and a Route to it
\* is pushed.
PushRoute(st, airport, base, seen, neighbor) ==
    IF neighbor \in seen THEN st
    ELSE LET g == get_price(st.memo, airport, neighbor)
             new_price == base.price + g.value
             new_path == Append(base.path, neighbor)
         IN  [routes |-> push(st.routes, Route(new_price, new_path)),
              memo |-> g.memo]

\* The for loop of lines 89-91 (seen = {} and base = Route(0, [origin])) and of
\* lines 106-110 (seen = visited, base the popped Route), over the neighbors in
\* the order the set yields them.  (The state after a turn is bound by CHOOSE
\* so that it is computed once.)
RECURSIVE PushRoutes(_, _, _, _, _, _)
PushRoutes(order, i, st, airport, base, seen) ==
    IF i > Len(order) THEN st
    ELSE CHOOSE after \in {PushRoutes(order, i + 1, nx, airport, base, seen) :
                              nx \in {PushRoute(st, airport, base, seen, order[i])}} : TRUE

\* The one search of a run (line 122).  Lines 88-94: the heap is seeded from the origin's neighbors and the origin
\* is marked visited.
DijkstraInit(o, d) ==
    /\ phase = "ready"
    /\ pc = "idle"
    /\ \E order \in Orders(neighbors(_neighbors, o)) :
         \E st \in {PushRoutes(order, 1,
                               [routes |-> <<>>, memo |-> [cache |-> cache, calls |-> calls]],
                               o, Route(0, <<o>>), {})} :
           /\ routes' = st.routes
           /\ cache' = st.memo.cache
           /\ calls' = st.memo.calls
    /\ _neighbors' = getitem(_neighbors, o)
    /\ visited' = {o}
    /\ origin' = o
    /\ destination' = d
    /\ price' = 0
    /\ path' = <<>>
    /\ result' = [type |-> "none"]
    /\ pc' = "loop"
    /\ UNCHANGED <<AIRPORTS, phase, rows>>

\* A loop that tests for the destination before it tests visited: a Route
\* that ends at a visited destination is returned.
PopVisitedDestinationFirst ==
    /\ pc = "loop"
    /\ Len(routes) > 0
    /\ \E r \in {pop(routes)} : \E airport \in {r.path[Len(r.path)]} :
           /\ airport \in visited
           /\ price' = r.price
           /\ path' = r.path
           /\ IF airport = destination
              THEN /\ pc' = "done"
                   /\ result' = [type |-> "tuple", price |-> r.price, path |-> r.path]
              ELSE UNCHANGED <<pc, result>>
    /\ routes' = pop_rest(routes)
    /\ UNCHANGED <<AIRPORTS, phase, rows, _neighbors, cache, calls, origin,
                   destination, visited>>

\* Lines 96-100: the popped Route ends at a visited airport: continue.
PopVisited ==
    /\ pc = "loop"
    /\ Len(routes) > 0
    /\ \E r \in {pop(routes)} : \E airport \in {r.path[Len(r.path)]} :
           /\ airport \in visited
           /\ price' = r.price
           /\ path' = r.path
    /\ routes' = pop_rest(routes)
    /\ UNCHANGED <<AIRPORTS, phase, rows, _neighbors, cache, calls, pc, origin,
                   destination, visited, result>>

\* Lines 96-103: the popped Route ends at the destination: return price, path.
PopDestination ==
    /\ pc = "loop"
    /\ Len(routes) > 0
    /\ \E r \in {pop(routes)} : \E airport \in {r.path[Len(r.path)]} :
           /\ airport \notin visited
           /\ airport = destination
           /\ price' = r.price
           /\ path' = r.path
           /\ result' = [type |-> "tuple", price |-> r.price, path |-> r.path]
    /\ routes' = pop_rest(routes)
    /\ pc' = "done"
    /\ UNCHANGED <<AIRPORTS, phase, rows, _neighbors, cache, calls, origin,
                   destination, visited>>

\* Lines 96-112: the popped Route is extended to the unvisited neighbors of its
\* last airport, which is then marked visited.
PopExpand ==
    /\ pc = "loop"
    /\ Len(routes) > 0
    /\ \E r \in {pop(routes)} : \E airport \in {r.path[Len(r.path)]} :
           /\ airport \notin visited
           /\ airport # destination
           /\ price' = r.price
           /\ path' = r.path
           /\ \E order \in Orders(neighbors(_neighbors, airport)) :
                \E st \in {PushRoutes(order, 1,
                                      [routes |-> pop_rest(routes),
                                       memo |-> [cache |-> cache, calls |-> calls]],
                                      airport, r, visited)} :
                  /\ routes' = st.routes
                  /\ cache' = st.memo.cache
                  /\ calls' = st.memo.calls
           /\ _neighbors' = getitem(_neighbors, airport)
           /\ visited' = visited \cup {airport}
    /\ UNCHANGED <<AIRPORTS, phase, rows, pc, origin, destination, result>>

\* A loop that pops without testing the heap: on the empty heap heappop raises
\* IndexError.
ExhaustedPops ==
    /\ pc = "loop"
    /\ Len(routes) = 0
    /\ result' = [type |-> "IndexError"]
    /\ pc' = "crashed"
    /\ UNCHANGED <<AIRPORTS, phase, rows, _neighbors, cache, calls, origin,
                   destination, routes, visited, price, path>>

\* Lines 96 and 114: the heap is empty: return sys.maxsize, an int.
Exhausted ==
    /\ pc = "loop"
    /\ Len(routes) = 0
    /\ result' = [type |-> "int", value |-> "sys.maxsize"]
    /\ pc' = "done"
    /\ UNCHANGED <<AIRPORTS, phase, rows, _neighbors, cache, calls, origin,
                   destination, routes, visited, price, path>>

\* One turn of the while loop of dijkstra.
Step == PopVisited \/ PopDestination \/ PopExpand \/ Exhausted

Next ==
    \/ \E o \in Codes, d \in Codes : LoadFlight(o, d)
    \/ LoadReturn
    \/ \E a \in KnownCodes, b \in KnownCodes : Connect(a, b)
    \/ \E n \in KnownCodes : Neighbors(n)
    \/ \E s \in Codes, d \in Codes : MainKeyError(s, d)
    \/ \E o \in KnownCodes, d \in KnownCodes : DijkstraInit(o, d)
    \/ Step

Spec == Init /\ [][Next]_vars

\* dijkstra is straight-line code on one thread: once in its loop, the loop's
\* next turn is taken.
FairSpec == Spec /\ WF_vars(Step)

\* --------------------------------------------------- get_price, on its own
\* A caller's own Graph.get_price(AIRPORTS[o], AIRPORTS[d]) (a staticmethod).
GetPriceCall(o, d) ==
    /\ Len(cache) < MaxPriceCalls \/ KeyIndex(cache, make_key(o, d)) > 0
    /\ LET g == get_price([cache |-> cache, calls |-> calls], o, d)
       IN  /\ cache' = g.memo.cache
           /\ calls' = g.memo.calls
    /\ UNCHANGED <<AIRPORTS, phase, rows, _neighbors, search>>

CacheNext == \E o \in KnownCodes, d \in KnownCodes : GetPriceCall(o, d)

CacheSpec == Init /\ [][CacheNext]_vars

\* ------------------------------------------- get_price, over many airports
\* A caller prices every ordered pair of a registry of SweepAirports airports,
\* row by row (for o in AIRPORTS.values(): for d in AIRPORTS.values():
\* Graph.get_price(o, d)), and starts over after the last pair.
SweepCodes == 1..SweepAirports

SweepInit ==
    /\ \E s \in Spacings :
           AIRPORTS = [c \in SweepCodes |->
                          [latitude |-> 0, longitude |-> ((c - 1) * s) % 360]]
    /\ phase = "load"
    /\ rows = {}
    /\ _neighbors = <<>>
    /\ cache = <<>>
    /\ calls = [p \in {{a, b} : a \in SweepCodes, b \in SweepCodes} |-> 0]
    /\ pc = "idle"
    /\ origin = 0
    /\ destination = 0
    /\ routes = <<>>
    /\ visited = {}
    /\ price = 0
    /\ path = <<>>
    /\ result = [type |-> "none"]

\* The pair the two for loops reach after key.
NextKey(key) ==
    IF key[2] < SweepAirports THEN <<key[1], key[2] + 1>>
    ELSE IF key[1] < SweepAirports THEN <<key[1] + 1, 1>>
    ELSE <<1, 1>>

SweepCall(o, d) ==
    /\ <<o, d>> = IF cache = <<>> THEN <<1, 1>> ELSE NextKey(cache[Len(cache)].key)
    /\ calls[{o, d}] < MaxSweepCalls
    /\ \E g \in {get_price([cache |-> cache, calls |-> calls], o, d)} :
           /\ cache' = g.memo.cache
           /\ calls' = g.memo.calls
    /\ UNCHANGED <<AIRPORTS, phase, rows, _neighbors, search>>

SweepNext == \E o \in SweepCodes, d \in SweepCodes : SweepCall(o, d)

SweepSpec == SweepInit /\ [][SweepNext]_vars

\* ================================================================ claims
\* The simple paths of g from s to d, as sequences of airports.
SimplePaths(g, s, d) ==
    {p \in UNION {[1..k -> KnownCodes] : k \in 2..NumAirports} :
        /\ p[1] = s
        /\ p[Len(p)] = d
        /\ \A i, j \in 1..Len(p) : p[i] = p[j] => i = j
        /\ \A i \in 1..(Len(p) - 1) : p[i + 1] \in neighbors(g, p[i])}

RECURSIVE PathCost(_)
PathCost(p) ==
    IF Len(p) < 2 THEN 0
    ELSE get_price_body(p[1], p[2]) + PathCost(Tail(p))

MinCost(g, s, d) ==
    CHOOSE c \in {PathCost(p) : p \in SimplePaths(g, s, d)} :
        \A p \in SimplePaths(g, s, d) : c <= PathCost(p)

\* C1: when dijkstra(s, d) has returned, s # d and d is reachable from s, the
\* result is a (price, path) tuple whose price is the least sum of edge prices
\* over all simple paths from s to d.
C1_MinimumCost ==
    (pc = "done" /\ origin # destination
        /\ SimplePaths(_neighbors, origin, destination) # {})
    => /\ result.type = "tuple"
       /\ result.price = MinCost(_neighbors, origin, destination)

\* A search that returned a tuple although a dearer simple path to the
\* destination exists.
C1_Witness ==
    /\ pc = "done"
    /\ origin # destination
    /\ result.type = "tuple"
    /\ \E p \in SimplePaths(_neighbors, origin, destination) :
           PathCost(p) > result.price

\* C2: when dijkstra(s, d) has returned and d is not reachable from s, the
\* result is a NoPathFound outcome, not a number.
C2_NoPathFound ==
    (pc = "done" /\ origin # destination
        /\ SimplePaths(_neighbors, origin, destination) = {})
    => result.type = "NoPathFound"

\* C3: dijkstra(s, s) returns price 0 and the path [s].
C3_SourceIsDestination ==
    (pc = "done" /\ origin = destination)
    => result = [type |-> "tuple", price |-> 0, path |-> <<origin>>]

\* C4: every search, once in its loop, returns.
C4_Terminates == (pc = "loop") ~> (pc = "done")

\* A search that went round its loop, expanded an airport and returned with
\* Routes still in the heap.
C4_Witness ==
    /\ pc = "done"
    /\ Cardinality(visited) >= 2
    /\ Len(routes) > 0

\* C5: a run whose query names a code AIRPORTS does not hold ends in an
\* UnknownNode failure, never in an unhandled lookup error.
C5_UnknownNode ==
    pc = "crashed" => result.type = "UnknownNode"

\* C6: the adjacency mapping is symmetric: b is a neighbor of a exactly when a
\* is a neighbor of b.
C6_Symmetric ==
    \A a \in Codes, b \in Codes :
        b \in neighbors(_neighbors, a) <=> a \in neighbors(_neighbors, b)

\* A search has gone through a graph with an edge between two airports.
C6_Witness ==
    /\ pc = "done"
    /\ \E a \in KnownCodes, b \in KnownCodes :
           a # b /\ b \in neighbors(_neighbors, a)

\* C7: on every graph the program builds, connect(a, b) followed by
\* connect(b, a), and connect(a, b) twice, leave what one connect(a, b) leaves.
C7_ConnectIdempotent ==
    \A a \in KnownCodes, b \in KnownCodes :
        LET once == connect(_neighbors, a, b)
        IN  /\ connect(once, b, a) = once
            /\ connect(once, a, b) = once

\* A caller has connected two airports of a loaded graph that were not
\* connected before.
C7_Witness ==
    /\ phase = "ready"
    /\ pc = "idle"
    /\ Cardinality(EdgeSet(_neighbors)) = MaxRows
    /\ \E a \in KnownCodes, b \in KnownCodes : a # b /\ {a, b} \in EdgeSet(_neighbors)

\* The flights read whose two codes AIRPORTS holds, as undirected pairs.
KnownFlights == {{r[1], r[2]} : r \in {q \in rows : q[1] \in KnownCodes /\ q[2] \in KnownCodes}}

\* C8: while Graph.load reads flights, the edges of the graph are exactly the
\* flights read whose two codes AIRPORTS holds, and its nodes their end points:
\* a flight with an unknown code adds nothing.
C8_LoadSkipsUnknown ==
    phase = "load" =>
        /\ EdgeSet(_neighbors) = KnownFlights
        /\ DOMAIN _neighbors = UNION KnownFlights

\* load has read a flight whose destination alone is unknown, and a good one.
C8_Witness ==
    /\ phase = "load"
    /\ \E r \in rows : r[1] \in KnownCodes /\ r[2] \notin KnownCodes
    /\ KnownFlights # {}

\* C9: haversine runs at most once for each unordered pair of airports.
C9_OncePerPair == \A p \in Pairs : calls[p] <= 1

\* The Route a stable heap would pop: the first pushed of the cheapest.
FirstCheapest(values) ==
    values[CHOOSE i \in 1..Len(values) :
               /\ \A j \in 1..Len(values) : values[i].price <= values[j].price
               /\ \A j \in 1..(i - 1) : values[i].price < values[j].price]

\* C10: every pop takes, of the cheapest Routes in the heap, the one pushed
\* first.
C10_StablePop ==
    [][(pc = "loop" /\ Len(routes) > 0)
        => (price' = FirstCheapest(routes).price /\ path' = FirstCheapest(routes).path)]_vars

\* C11: once load has returned, no neighbors call and no step of dijkstra
\* changes the adjacency mapping, its keys included.
C11_GraphReadOnly ==
    [][((\E n \in KnownCodes : Neighbors(n))
          \/ (\E o \in KnownCodes, d \in KnownCodes : DijkstraInit(o, d))
          \/ Step)
        => _neighbors' = _neighbors]_vars

NoRepeat(p) == \A i, j \in 1..Len(p) : p[i] = p[j] => i = j

\* C12: no Route in the heap, and no Route just popped, names an airport
\* twice.
C12_NoRepeatedNode ==
    /\ \A i \in 1..Len(routes) : NoRepeat(routes[i].path)
    /\ NoRepeat(path)

\* C13: the price of every Route in the heap, and of the tuple returned, is
\* the sum of the prices of the flights along its path.
C13_PriceIsSum ==
    /\ \A i \in 1..Len(routes) : routes[i].price = PathCost(routes[i].path)
    /\ result.type = "tuple" => result.price = PathCost(result.path)

\* The heap holds a Route of two flights and a Route of one.
C13_Witness ==
    /\ pc = "loop"
    /\ \E i, j \in 1..Len(routes) :
           /\ Len(routes[i].path) = 3
           /\ Len(routes[j].path) = 2
           /\ routes[i].price > routes[j].price

\* The least price of a way from the origin to n.
Dist(n) == IF n = origin THEN 0 ELSE MinCost(_neighbors, origin, n)

\* C14: the Route popped when an airport is marked visited has the least price
\* of any path from the origin to it, and no Route popped for any airport is
\* cheaper than that least price.
C14_VisitedIsFinal ==
    [][(pc = "loop" /\ Len(routes) > 0)
        => /\ price' >= Dist(path'[Len(path')])
           /\ visited' # visited => price' = Dist(path'[Len(path')])]_vars

\* A Route was popped for an airport already visited, dearer than the Route
\* the airport was visited with.
C14_Witness ==
    /\ pc = "loop"
    /\ Len(path) >= 3
    /\ path[Len(path)] \in visited
    /\ price > Dist(path[Len(path)])

\* C15: the path returned starts at the origin, ends at the destination and
\* takes only flights of the graph.
C15_PathFollowsEdges ==
    (pc = "done" /\ result.type = "tuple")
    => /\ origin # destination
       /\ result.path[1] = origin
       /\ result.path[Len(result.path)] = destination
       /\ \A i \in 1..(Len(result.path) - 1) :
              {result.path[i], result.path[i + 1]} \in EdgeSet(_neighbors)

\* A returned path of two flights between airports no flight joins.
C15_Witness ==
    /\ pc = "done"
    /\ result.type = "tuple"
    /\ Len(result.path) = 3
    /\ {origin, destination} \notin EdgeSet(_neighbors)

\* C16: an entry get_price's cache holds stays in it: no call evicts.
C16_NoEviction ==
    [][\A i \in 1..Len(cache) : KeyIndex(cache', cache[i].key) > 0]_vars

\* C17: a pop of a Route whose last airport is visited only takes that Route
\* out of the heap: nothing is pushed, visited and the cache stay, the search
\* goes on, also when the airport is the destination.  visited only grows, and
\* by an airport that was not in it.
C17_StalePopOnlyDiscards ==
    [][/\ (pc = "loop" /\ Len(routes) > 0
             /\ pop(routes).path[Len(pop(routes).path)] \in visited)
          => /\ Len(routes') = Len(routes) - 1
             /\ \A i \in 1..Len(routes') : \E j \in 1..Len(routes) : routes[j] = routes'[i]
             /\ visited' = visited
             /\ cache' = cache
             /\ result' = result
             /\ pc' = "loop"
       /\ pc = "loop"
          => /\ visited \subseteq visited'
             /\ visited' # visited
                => /\ visited' \ visited = {path'[Len(path')]}
                   /\ Len(routes) > 0
                   /\ path' = pop(routes).path]_vars

\* A Route that ends at the destination was popped and dropped, the
\* destination being visited, and the search goes on.
C17_Witness ==
    /\ pc = "loop"
    /\ Len(path) > 0
    /\ path[Len(path)] = destination
    /\ destination \in visited

\* C18: each pop takes a Route of least price among the Routes in the heap,
\* and the prices of the Routes popped in one search never decrease.
C18_PopsNonDecreasing ==
    [][(pc = "loop" /\ Len(routes) > 0)
        => /\ \A i \in 1..Len(routes) : price' <= routes[i].price
           /\ \E i \in 1..Len(routes) : price' = routes[i].price
           /\ price' >= price]_vars

\* A Route of positive price was popped while a dearer one and a Route of two
\* flights wait in the heap.
C18_Witness ==
    /\ pc = "loop"
    /\ price > 0
    /\ \E i, j \in 1..Len(routes) :
           /\ routes[i].price > price
           /\ Len(routes[j].path) = 3

\* The members of S in ascending order.
Ascending(S) == CHOOSE f \in Orders(S) : \A i, j \in 1..Cardinality(S) : i < j => f[i] < f[j]

\* The while loop of dijkstra, lines 96-114, run to its return on heap h with
\* every neighbor set enumerated in ascending order.
RECURSIVE AscendingLoop(_, _, _, _)
AscendingLoop(g, h, seen, d) ==
    IF Len(h) = 0 THEN [type |-> "int", value |-> "sys.maxsize"]
    ELSE CHOOSE res \in
            {IF r.path[Len(r.path)] \in seen
                 THEN AscendingLoop(g, pop_rest(h), seen, d)
             ELSE IF r.path[Len(r.path)] = d
                 THEN [type |-> "tuple", price |-> r.price, path |-> r.path]
             ELSE AscendingLoop(g,
                      PushRoutes(Ascending(neighbors(g, r.path[Len(r.path)])), 1,
                                 [routes |-> pop_rest(h),
                                  memo |-> [cache |-> <<>>, calls |-> calls]],
                                 r.path[Len(r.path)], r, seen).routes,
                      seen \cup {r.path[Len(r.path)]}, d)
             : r \in {pop(h)}} : TRUE

\* dijkstra(o, d) on g with every neighbor set enumerated in ascending order.
AscendingDijkstra(g, o, d) ==
    AscendingLoop(g,
        PushRoutes(Ascending(neighbors(g, o)), 1,
                   [routes |-> <<>>, memo |-> [cache |-> <<>>, calls |-> calls]],
                   o, Route(0, <<o>>), {}).routes,
        {o}, d)

\* C19: whatever order the neighbor sets were enumerated in, a search that has
\* returned holds the result of the search that enumerates them in ascending
\* order: the same price and the same path, or the same sys.maxsize.
C19_OrderIndependent ==
    pc = "done" => result = AscendingDijkstra(_neighbors, origin, destination)

\* A search returned a path although another simple path to the destination
\* has the same price, and the origin has two neighbors to enumerate.
C19_Witness ==
    /\ pc = "done"
    /\ result.type = "tuple"
    /\ Cardinality(neighbors(_neighbors, origin) \ {origin}) >= 2
    /\ \E p \in SimplePaths(_neighbors, origin, destination) :
           p # result.path /\ PathCost(p) = result.price

\* C20: the search pops only from a heap that holds a Route: on the empty heap
\* it returns without a pop and without an IndexError, and on any other heap
\* its step hands out the least Route of the heap.
C20_NoPopOnEmpty ==
    [][pc = "loop"
        => /\ pc' # "crashed"
           /\ result'.type # "IndexError"
           /\ Len(routes) = 0
              => /\ pc' = "done"
                 /\ routes' = routes
                 /\ price' = price
                 /\ path' = path
           /\ Len(routes) > 0
              => /\ price' = pop(routes).price
                 /\ path' = pop(routes).path
                 /\ Len(routes') >= Len(routes) - 1]_vars

\* The search popped its last Route, found the heap empty and returned.
C20_Witness ==
    /\ pc = "done"
    /\ result.type = "int"
    /\ routes = <<>>
    /\ Len(path) > 0

====
